---- MODULE Spec2Model ----
(***************************************************************************)
(* CPU identification layer of the SVSM kernel:                            *)
(*   kernel/src/cpu/cpuid.rs     raw CPUID probe, CPUID page, table lookup *)
(*   kernel/src/cpu/features.rs  feature cache and platform identity       *)
(*                                                                         *)
(* A u32 is kept as the pair <<high 16 bits, low 16 bits>>, so that every  *)
(* 32-bit value (0x80000000 and 0x80000001 included) is representable and  *)
(* the bitwise operators work on the full width.                           *)
(* An Option<T> is the empty tuple (None) or a one-element tuple (Some).   *)
(***************************************************************************)
EXTENDS Integers, Sequences, FiniteSets, TLC

VARIABLES
    CPUID_PAGE,      \* cpuid.rs:13       the write-once reference to the CPUID table
    X86_FEATURES,    \* features.rs:36-38 lazy static: [once, word]
    CPU_TYPE,        \* features.rs:92-94 lazy static: [once, value]
    pc,              \* position of each processor context
    call,            \* the call each context is in, or has last made: [op, arg, seen],
                     \* seen being the state of what it reads when the call was made
    ret,             \* what that call returned: <<>> while none, <<v>> once returned
    raced,           \* history: the lazy statics whose first use several contexts made at once
    local,           \* locals of the initialiser a context is running
    featQ,           \* history: CPUID queries issued by X86Features::new
    typeQ,           \* history: CPUID queries issued by is_td_cpu
    evals,           \* history: number of initialiser runs started, per lazy static
    first_cpu_type   \* history: first value returned by cpu_type and the length of typeQ then

vars == <<CPUID_PAGE, X86_FEATURES, CPU_TYPE, pc, call, ret, raced, local,
          featQ, typeQ, evals, first_cpu_type>>

-----------------------------------------------------------------------------
(* Bounds of the model *)

NumProcs == 2

Procs == 1..NumProcs

-----------------------------------------------------------------------------
(* 32-bit values *)

U32(hi, lo) == <<hi, lo>>

ZERO32 == U32(0, 0)

FromNat(n) == U32(n \div 65536, n % 65536)

RECURSIVE BitAnd16(_, _)
BitAnd16(a, b) ==
    IF a = 0 \/ b = 0 THEN 0
    ELSE (a % 2) * (b % 2) + 2 * BitAnd16(a \div 2, b \div 2)

BitAnd32(x, y) == U32(BitAnd16(x[1], y[1]), BitAnd16(x[2], y[2]))

None == <<>>
Some(x) == <<x>>
unwrap(opt) == opt[1]

-----------------------------------------------------------------------------
(* cpuid.rs: CpuidResult and the raw probe *)

CpuidResult(a, b, c, d) == [eax |-> a, ebx |-> b, ecx |-> c, edx |-> d]

\* cpuid(eax): the result of the CPUID instruction, always wrapped in Some.
\* `result` is what __cpuid(eax) gave.
cpuid(result) ==
    Some(CpuidResult(result.eax, result.ebx, result.ecx, result.edx))

LEAF_00 == U32(\H0000, \H0000)
LEAF_01 == U32(\H0000, \H0001)
LEAF_21 == U32(\H0000, \H0021)
LEAF_80000001 == U32(\H8000, \H0001)

-----------------------------------------------------------------------------
(* features.rs: the feature cache *)

X86_FEATURE_PGE == 13
X86_FEATURE_NX == 52
FEATURE_WORDS == 2

\* X86Features::new, given the two unwrapped query results
\* (faulty variant: word[1] taken from leaf 0x00000001 too)
X86Features_new_swapped(cpuid01, cpuid80000001) == <<cpuid01.edx, cpuid01.edx>>
X86Features_new(cpuid01, cpuid80000001) == <<cpuid01.edx, cpuid80000001.edx>>

\* cpu_has_feature on the cached words: word[feat / 32] & (feat % 32) != 0
cpu_has_feature(word, feat) ==
    BitAnd32(word[(feat \div 32) + 1], FromNat(feat % 32)) # ZERO32

\* What a dereference of a lazy static does, by the state of its Once.
\* (faulty variants: the initialiser run again on an initialised static; the
\* initialiser run by a context that finds another one running it)
lazy_static_deref_uncached(once) ==
    CASE once = "INCOMPLETE" -> "init"
      [] once = "RUNNING"    -> "wait"
      [] once = "COMPLETE"   -> "init"
lazy_static_deref_unguarded(once) ==
    CASE once = "INCOMPLETE" -> "init"
      [] once = "RUNNING"    -> "init"
      [] once = "COMPLETE"   -> "read"
lazy_static_deref(once) ==
    CASE once = "INCOMPLETE" -> "init"
      [] once = "RUNNING"    -> "wait"
      [] once = "COMPLETE"   -> "read"

-----------------------------------------------------------------------------
(* features.rs: platform identity *)

VENDOR_EBX == U32(\H756e, \H6547)
VENDOR_EDX == U32(\H4965, \H6e69)
VENDOR_ECX == U32(\H6c65, \H746e)
HYPERVISOR_BIT == U32(\H8000, \H0000)
TDX_EBX == U32(\H6574, \H6e49)
TDX_EDX == U32(\H5844, \H546c)
TDX_ECX == U32(\H2020, \H2020)

\* The three match blocks of is_td_cpu: TRUE when the block does not return false.
Check00(r) ==
    IF r = None THEN FALSE
    ELSE LET c == r[1] IN
         ~(c.ebx # VENDOR_EBX \/ c.edx # VENDOR_EDX \/ c.ecx # VENDOR_ECX)

\* (faulty variant: any non-zero ECX taken for the hypervisor bit)
Check01_nonzero(r) ==
    IF r = None THEN FALSE
    ELSE LET c == r[1] IN ~(c.ecx = ZERO32)
Check01(r) ==
    IF r = None THEN FALSE
    ELSE LET c == r[1] IN ~(BitAnd32(c.ecx, HYPERVISOR_BIT) = ZERO32)

\* (faulty variant: an unavailable leaf 0x21 taken for a match)
Check21_none_passes(r) ==
    IF r = None THEN TRUE
    ELSE LET c == r[1] IN
         ~(c.ebx # TDX_EBX \/ c.edx # TDX_EDX \/ c.ecx # TDX_ECX)
Check21(r) ==
    IF r = None THEN FALSE
    ELSE LET c == r[1] IN
         ~(c.ebx # TDX_EBX \/ c.edx # TDX_EDX \/ c.ecx # TDX_ECX)

\* Control flow of is_td_cpu: from the query just answered (`at`, with result r)
\* to the next query, or to the value returned.
\* (faulty variant: leaf 0x21 queried before leaf 0x1)
is_td_cpu_reordered(at, r) ==
    CASE at = "is_td_cpu_00" -> IF Check00(r) THEN "is_td_cpu_21" ELSE "false"
      [] at = "is_td_cpu_21" -> IF Check21(r) THEN "is_td_cpu_01" ELSE "false"
      [] at = "is_td_cpu_01" -> IF Check01(r) THEN "true" ELSE "false"
is_td_cpu(at, r) ==
    CASE at = "is_td_cpu_00" -> IF Check00(r) THEN "is_td_cpu_01" ELSE "false"
      [] at = "is_td_cpu_01" -> IF Check01(r) THEN "is_td_cpu_21" ELSE "false"
      [] at = "is_td_cpu_21" -> IF Check21(r) THEN "true" ELSE "false"

\* The leaf queried at each position of is_td_cpu
QueryLeaf(at) ==
    CASE at = "is_td_cpu_00" -> LEAF_00
      [] at = "is_td_cpu_01" -> LEAF_01
      [] at = "is_td_cpu_21" -> LEAF_21
      [] OTHER -> None

get_cpu_type(td) == IF td THEN "Td" ELSE "Sev"

\* cpu_type, is_sev, is_tdx on the cached value
cpu_type(v) == v
is_sev(v) == cpu_type(v) = "Sev"
is_tdx(v) == cpu_type(v) = "Td"

-----------------------------------------------------------------------------
(* cpuid.rs: the CPUID page and the table lookup *)

\* One entry of SnpCpuidTable.func, as read at cpuid.rs:71-80.  The masks are
\* u64 in the source; only equality is taken of them.
SnpCpuidFn(eax_in, ecx_in, xcr0_in, xss_in, out) ==
    [eax_in |-> FromNat(eax_in), ecx_in |-> FromNat(ecx_in),
     xcr0_in |-> xcr0_in, xss_in |-> xss_in,
     eax_out |-> FromNat(out), ebx_out |-> FromNat(out + 1),
     ecx_out |-> FromNat(out + 2), edx_out |-> FromNat(out + 3)]

SnpCpuidTable(count, func) == [count |-> count, func |-> func]

\* ImmutAfterInitRef::init_from_ref: the first initialisation stores the
\* reference, a later one is refused and leaves the cell alone.
init_from_ref(cell, table) ==
    IF cell = None
    THEN [cell |-> Some(table), res |-> "Ok"]
    ELSE [cell |-> cell, res |-> "Err"]

\* register_cpuid_table: init_from_ref(table).expect("Could not initialize CPUID page")
\* (faulty variant: the result of init_from_ref dropped)
register_cpuid_table_unchecked(cell, table) ==
    [cell |-> init_from_ref(cell, table).cell, panic |-> None]
register_cpuid_table(cell, table) ==
    LET r == init_from_ref(cell, table) IN
    [cell |-> r.cell,
     panic |-> IF r.res = "Ok" THEN None
               ELSE Some("Could not initialize CPUID page")]

\* The scan of cpuid_table_raw (cpuid.rs:68-85), which follows the panic.
cpuid_table_scan(table, eax, ecx, xcr0, xss) ==
    LET hits == {i \in 1..table.count :
                    /\ eax = table.func[i].eax_in
                    /\ ecx = table.func[i].ecx_in
                    /\ xcr0 = table.func[i].xcr0_in
                    /\ xss = table.func[i].xss_in}
    IN IF hits = {} THEN None
       ELSE LET i == CHOOSE h \in hits : \A k \in hits : h <= k
            IN Some(CpuidResult(table.func[i].eax_out, table.func[i].ebx_out,
                                table.func[i].ecx_out, table.func[i].edx_out))

\* cpuid_table_raw: <<"panic", message>> or <<"return", Option<CpuidResult>>>
\* (faulty variant: the panic removed, an uninitialised page read as a
\* zero-filled table)
cpuid_table_raw_zeroed(page, eax, ecx, xcr0, xss) ==
    IF page = None THEN <<"return", None>>
    ELSE <<"return", cpuid_table_scan(page[1], eax, ecx, xcr0, xss)>>
cpuid_table_raw(page, eax, ecx, xcr0, xss) ==
    <<"panic", "cpuid_table_raw not supported">>

cpuid_table(page, eax) == cpuid_table_raw(page, eax, ZERO32, 0, 0)

-----------------------------------------------------------------------------
(* Inputs *)

\* Feature indices passed to cpu_has_feature
FeatureIdx == {X86_FEATURE_PGE, X86_FEATURE_NX, 64}

\* EDX values of leaf 0x00000001: nothing, bit 13 alone, the bits of the
\* number 13 (bits 0, 2, 3), everything
Leaf01Edx == {ZERO32, U32(\H0000, \H2000), U32(\H0000, \H000d), U32(\Hffff, \Hffff)}
\* ECX values of leaf 0x00000001: bit 31 clear, bit 31 alone, all but bit 31
Leaf01Ecx == {ZERO32, HYPERVISOR_BIT, U32(\H7fff, \Hffff)}
\* EDX values of leaf 0x80000001: nothing, bit 20 alone, the bits of the
\* number 20 (bits 2, 4), everything
Leaf80000001Edx == {ZERO32, U32(\H0010, \H0000), U32(\H0000, \H0014), U32(\Hffff, \Hffff)}

\* "AuthenticAMD", for the registers that do not match
OTHER_EBX == U32(\H6874, \H7541)
OTHER_EDX == U32(\H6974, \H6e65)
OTHER_ECX == U32(\H444d, \H4163)

HwResults(leaf) ==
    CASE leaf = LEAF_00 ->
            {CpuidResult(FromNat(35), VENDOR_EBX, VENDOR_ECX, VENDOR_EDX),
             CpuidResult(FromNat(35), OTHER_EBX, VENDOR_ECX, VENDOR_EDX),
             CpuidResult(FromNat(35), VENDOR_EBX, OTHER_ECX, VENDOR_EDX),
             CpuidResult(FromNat(35), VENDOR_EBX, VENDOR_ECX, OTHER_EDX)}
      [] leaf = LEAF_01 ->
            {CpuidResult(ZERO32, ZERO32, c, d) : c \in Leaf01Ecx, d \in Leaf01Edx}
      [] leaf = LEAF_21 ->
            {CpuidResult(ZERO32, TDX_EBX, TDX_ECX, TDX_EDX),
             CpuidResult(ZERO32, VENDOR_EBX, TDX_ECX, TDX_EDX),
             CpuidResult(ZERO32, TDX_EBX, ZERO32, TDX_EDX),
             CpuidResult(ZERO32, TDX_EBX, TDX_ECX, ZERO32)}
      [] leaf = LEAF_80000001 ->
            {CpuidResult(ZERO32, ZERO32, ZERO32, d) : d \in Leaf80000001Edx}

\* The answers drawn when both lazy statics are raced at once
RaceResults(leaf) ==
    CASE leaf = LEAF_00 ->
            {CpuidResult(FromNat(35), VENDOR_EBX, VENDOR_ECX, VENDOR_EDX),
             CpuidResult(FromNat(35), OTHER_EBX, OTHER_ECX, OTHER_EDX)}
      [] leaf = LEAF_01 ->
            {CpuidResult(ZERO32, ZERO32, HYPERVISOR_BIT, U32(\H0000, \H2000)),
             CpuidResult(ZERO32, ZERO32, ZERO32, U32(\H0000, \H000d))}
      [] leaf = LEAF_21 ->
            {CpuidResult(ZERO32, TDX_EBX, TDX_ECX, TDX_EDX),
             CpuidResult(ZERO32, ZERO32, ZERO32, ZERO32)}
      [] leaf = LEAF_80000001 ->
            {CpuidResult(ZERO32, ZERO32, ZERO32, U32(\H0010, \H0000)),
             CpuidResult(ZERO32, ZERO32, ZERO32, U32(\H0000, \H0014))}

PlatformLeaves == {LEAF_00, LEAF_01, LEAF_21}

\* Tables handed to register_cpuid_table
E_BASE == SnpCpuidFn(1, 0, 0, 0, 100)
E_XCR0 == SnpCpuidFn(1, 0, 3, 0, 200)
E_XSS  == SnpCpuidFn(1, 0, 0, 1, 300)

Tables ==
    {SnpCpuidTable(2, <<E_BASE, E_XCR0>>),
     SnpCpuidTable(2, <<E_XSS, E_BASE>>),
     SnpCpuidTable(1, <<E_XCR0, E_BASE>>),
     SnpCpuidTable(0, <<E_BASE, E_BASE>>)}

LookupEax == {FromNat(1), FromNat(7)}
LookupEcx == {ZERO32}
LookupXcr0 == {0, 3}
LookupXss == {0, 1}

-----------------------------------------------------------------------------
(* State after construction: nothing installed, nothing evaluated *)

Init ==
    /\ CPUID_PAGE = None
    /\ X86_FEATURES = [once |-> "INCOMPLETE", word |-> None]
    /\ CPU_TYPE = [once |-> "INCOMPLETE", value |-> None]
    /\ pc = [p \in Procs |-> "idle"]
    /\ call = [p \in Procs |-> [op |-> "none", arg |-> None, seen |-> None]]
    /\ ret = [p \in Procs |-> None]
    /\ raced = {}
    /\ local = [p \in Procs |-> None]
    /\ featQ = <<>>
    /\ typeQ = <<>>
    /\ evals = [feat |-> 0, type |-> 0]
    /\ first_cpu_type = None

Returned(v) == <<"return", v>>
Panicked(msg) == <<"panic", msg>>

\* A context enters a call
Enter(p, op, arg, seen, at) ==
    /\ pc[p] = "idle"
    /\ pc' = [pc EXCEPT ![p] = at]
    /\ call' = [call EXCEPT ![p] = [op |-> op, arg |-> arg, seen |-> seen]]
    /\ ret' = [ret EXCEPT ![p] = None]

-----------------------------------------------------------------------------
(* cpu_has_feature *)

CallCpuHasFeature(p, feat) ==
    /\ Enter(p, "cpu_has_feature", feat, X86_FEATURES.once, "feat_deref")
    /\ raced' = IF /\ X86_FEATURES.once # "COMPLETE"
                   /\ \E q \in Procs : pc[q] \in {"feat_deref", "new_01", "new_80000001",
                                                   "feat_ready"}
                THEN raced \cup {"X86_FEATURES"} ELSE raced
    /\ UNCHANGED <<CPUID_PAGE, X86_FEATURES, CPU_TYPE, local, featQ, typeQ,
                   evals, first_cpu_type>>

\* First dereference of X86_FEATURES: this context runs X86Features::new
FeatInit(p) ==
    /\ pc[p] = "feat_deref"
    /\ lazy_static_deref(X86_FEATURES.once) = "init"
    /\ X86_FEATURES' = [X86_FEATURES EXCEPT !.once = "RUNNING"]
    /\ evals' = [evals EXCEPT !.feat = @ + 1]
    /\ pc' = [pc EXCEPT ![p] = "new_01"]
    /\ UNCHANGED <<CPUID_PAGE, CPU_TYPE, call, ret, raced, local, featQ, typeQ,
                   first_cpu_type>>

\* Dereference while another context runs the initialiser: wait for it
FeatWait(p) ==
    /\ pc[p] = "feat_deref"
    /\ lazy_static_deref(X86_FEATURES.once) = "wait"
    /\ UNCHANGED vars

\* The dereference yields the initialised static (to the context that found it
\* initialised, or to the one that has just initialised it), then the bit test
FeatRead(p) ==
    /\ \/ pc[p] = "feat_deref" /\ lazy_static_deref(X86_FEATURES.once) = "read"
       \/ pc[p] = "feat_ready"
    /\ IF call[p].arg \div 32 >= FEATURE_WORDS
       THEN /\ pc' = [pc EXCEPT ![p] = "panicked"]
            /\ ret' = [ret EXCEPT ![p] = Panicked("index out of bounds")]
       ELSE /\ pc' = [pc EXCEPT ![p] = "idle"]
            /\ ret' = [ret EXCEPT ![p] =
                          Returned(cpu_has_feature(X86_FEATURES.word, call[p].arg))]
    /\ UNCHANGED <<CPUID_PAGE, X86_FEATURES, CPU_TYPE, call, raced, local,
                   featQ, typeQ, evals, first_cpu_type>>

\* X86Features::new: cpuid(0x00000001).unwrap(), answered by r
FeatQuery01(p, r) ==
    /\ pc[p] = "new_01"
    /\ featQ' = Append(featQ, [leaf |-> LEAF_01, ret |-> r])
    /\ IF r = None
       THEN /\ pc' = [pc EXCEPT ![p] = "panicked"]
            /\ ret' = [ret EXCEPT ![p] = Panicked("unwrap on None")]
            /\ UNCHANGED local
       ELSE /\ pc' = [pc EXCEPT ![p] = "new_80000001"]
            /\ local' = [local EXCEPT ![p] = Some(unwrap(r))]
            /\ UNCHANGED ret
    /\ UNCHANGED <<CPUID_PAGE, X86_FEATURES, CPU_TYPE, call, raced, typeQ,
                   evals, first_cpu_type>>

\* X86Features::new: cpuid(0x80000001).unwrap(), answered by r; the value
\* returned is published as X86_FEATURES
FeatQuery80000001(p, r) ==
    /\ pc[p] = "new_80000001"
    /\ featQ' = Append(featQ, [leaf |-> LEAF_80000001, ret |-> r])
    /\ IF r = None
       THEN /\ pc' = [pc EXCEPT ![p] = "panicked"]
            /\ ret' = [ret EXCEPT ![p] = Panicked("unwrap on None")]
            /\ UNCHANGED <<X86_FEATURES, local>>
       ELSE /\ pc' = [pc EXCEPT ![p] = "feat_ready"]
            /\ X86_FEATURES' = [once |-> "COMPLETE",
                                word |-> X86Features_new(unwrap(local[p]), unwrap(r))]
            /\ local' = [local EXCEPT ![p] = None]
            /\ UNCHANGED ret
    /\ UNCHANGED <<CPUID_PAGE, CPU_TYPE, call, raced, typeQ, evals,
                   first_cpu_type>>

-----------------------------------------------------------------------------
(* cpu_type, is_sev, is_tdx *)

CallCpuType(p, op) ==
    /\ Enter(p, op, None, first_cpu_type, "type_deref")
    /\ raced' = IF /\ CPU_TYPE.once # "COMPLETE"
                   /\ \E q \in Procs : pc[q] \in {"type_deref", "is_td_cpu_00",
                                                   "is_td_cpu_01", "is_td_cpu_21",
                                                   "type_ready"}
                THEN raced \cup {"CPU_TYPE"} ELSE raced
    /\ UNCHANGED <<CPUID_PAGE, X86_FEATURES, CPU_TYPE, local, featQ, typeQ,
                   evals, first_cpu_type>>

\* First dereference of CPU_TYPE: this context runs get_cpu_type
TypeInit(p) ==
    /\ pc[p] = "type_deref"
    /\ lazy_static_deref(CPU_TYPE.once) = "init"
    /\ CPU_TYPE' = [CPU_TYPE EXCEPT !.once = "RUNNING"]
    /\ evals' = [evals EXCEPT !.type = @ + 1]
    /\ pc' = [pc EXCEPT ![p] = "is_td_cpu_00"]
    /\ UNCHANGED <<CPUID_PAGE, X86_FEATURES, call, ret, raced, local, featQ,
                   typeQ, first_cpu_type>>

TypeWait(p) ==
    /\ pc[p] = "type_deref"
    /\ lazy_static_deref(CPU_TYPE.once) = "wait"
    /\ UNCHANGED vars

\* The dereference yields the initialised static (to the context that found it
\* initialised, or to the one that has just initialised it): cpu_type() returns
\* the cached value
TypeRead(p) ==
    /\ \/ pc[p] = "type_deref" /\ lazy_static_deref(CPU_TYPE.once) = "read"
       \/ pc[p] = "type_ready"
    /\ pc' = [pc EXCEPT ![p] = "idle"]
    /\ ret' = [ret EXCEPT ![p] =
                  CASE call[p].op = "cpu_type" -> Returned(cpu_type(CPU_TYPE.value))
                    [] call[p].op = "is_sev"   -> Returned(is_sev(CPU_TYPE.value))
                    [] call[p].op = "is_tdx"   -> Returned(is_tdx(CPU_TYPE.value))]
    /\ first_cpu_type' = IF first_cpu_type = None
                         THEN Some(<<cpu_type(CPU_TYPE.value), Len(typeQ)>>)
                         ELSE first_cpu_type
    /\ UNCHANGED <<CPUID_PAGE, X86_FEATURES, CPU_TYPE, call, raced, local,
                   featQ, typeQ, evals>>

\* One query of is_td_cpu, answered by r; when is_td_cpu returns, get_cpu_type's
\* value is published as CPU_TYPE
TypeQuery(p, leaf, r) ==
    /\ pc[p] \in {"is_td_cpu_00", "is_td_cpu_01", "is_td_cpu_21"}
    /\ leaf = QueryLeaf(pc[p])
    /\ typeQ' = Append(typeQ, [leaf |-> leaf, ret |-> r])
    /\ LET to == is_td_cpu(pc[p], r) IN
       IF to \in {"true", "false"}
       THEN /\ CPU_TYPE' = [once |-> "COMPLETE", value |-> get_cpu_type(to = "true")]
            /\ pc' = [pc EXCEPT ![p] = "type_ready"]
       ELSE /\ pc' = [pc EXCEPT ![p] = to]
            /\ UNCHANGED CPU_TYPE
    /\ UNCHANGED <<CPUID_PAGE, X86_FEATURES, call, ret, raced, local, featQ,
                   evals, first_cpu_type>>

-----------------------------------------------------------------------------
(* register_cpuid_table, cpuid_table_raw, cpuid_table *)

RegisterCpuidTable(p, table) ==
    /\ pc[p] = "idle"
    /\ LET r == register_cpuid_table(CPUID_PAGE, table) IN
       /\ CPUID_PAGE' = r.cell
       /\ call' = [call EXCEPT ![p] = [op |-> "register_cpuid_table", arg |-> table,
                                         seen |-> CPUID_PAGE]]
       /\ IF r.panic = None
          THEN /\ pc' = pc
               /\ ret' = [ret EXCEPT ![p] = Returned("()")]
          ELSE /\ pc' = [pc EXCEPT ![p] = "panicked"]
               /\ ret' = [ret EXCEPT ![p] = Panicked(unwrap(r.panic))]
    /\ UNCHANGED <<X86_FEATURES, CPU_TYPE, raced, local, featQ, typeQ, evals,
                   first_cpu_type>>

\* A lookup call whose outcome is r
Lookup(p, op, arg, r) ==
    /\ call' = [call EXCEPT ![p] = [op |-> op, arg |-> arg, seen |-> CPUID_PAGE]]
    /\ ret' = [ret EXCEPT ![p] = r]
    /\ pc' = [pc EXCEPT ![p] = IF r[1] = "panic" THEN "panicked" ELSE "idle"]
    /\ UNCHANGED <<CPUID_PAGE, X86_FEATURES, CPU_TYPE, raced, local, featQ,
                   typeQ, evals, first_cpu_type>>

CpuidTableRaw(p, eax, ecx, xcr0, xss) ==
    /\ pc[p] = "idle"
    /\ Lookup(p, "cpuid_table_raw", <<eax, ecx, xcr0, xss>>,
              cpuid_table_raw(CPUID_PAGE, eax, ecx, xcr0, xss))

CpuidTable(p, eax) ==
    /\ pc[p] = "idle"
    /\ Lookup(p, "cpuid_table", <<eax, ZERO32, 0, 0>>, cpuid_table(CPUID_PAGE, eax))

-----------------------------------------------------------------------------
(* Specifications *)

\* The feature cache, raced by all contexts
NextFeat ==
    \E p \in Procs :
        \/ \E feat \in FeatureIdx : CallCpuHasFeature(p, feat)
        \/ FeatInit(p)
        \/ FeatWait(p)
        \/ FeatRead(p)
        \/ \E c \in HwResults(LEAF_01) : FeatQuery01(p, cpuid(c))
        \/ \E c \in HwResults(LEAF_80000001) : FeatQuery80000001(p, cpuid(c))

SpecFeat == Init /\ [][NextFeat]_vars

\* Platform identity, raced by all contexts
NextType ==
    \E p \in Procs :
        \/ \E op \in {"cpu_type", "is_sev", "is_tdx"} : CallCpuType(p, op)
        \/ TypeInit(p)
        \/ TypeWait(p)
        \/ TypeRead(p)
        \/ \E leaf \in PlatformLeaves : \E c \in HwResults(leaf) :
               TypeQuery(p, leaf, cpuid(c))

SpecType == Init /\ [][NextType]_vars

\* Platform identity over a probe that may report unavailability
NextUnavail ==
    \E p \in Procs :
        \/ \E op \in {"cpu_type", "is_sev", "is_tdx"} : CallCpuType(p, op)
        \/ TypeInit(p)
        \/ TypeWait(p)
        \/ TypeRead(p)
        \/ \E leaf \in PlatformLeaves :
               \E r \in {None} \cup {cpuid(c) : c \in HwResults(leaf)} :
                   TypeQuery(p, leaf, r)

SpecUnavail == Init /\ [][NextUnavail]_vars

\* The CPUID page
NextTable ==
    \E p \in Procs :
        \/ \E table \in Tables : RegisterCpuidTable(p, table)
        \/ \E eax \in LookupEax, ecx \in LookupEcx, xcr0 \in LookupXcr0,
              xss \in LookupXss : CpuidTableRaw(p, eax, ecx, xcr0, xss)
        \/ \E eax \in LookupEax : CpuidTable(p, eax)

SpecTable == Init /\ [][NextTable]_vars

\* Both lazy statics together
Next ==
    \E p \in Procs :
        \/ \E feat \in {X86_FEATURE_PGE, X86_FEATURE_NX} : CallCpuHasFeature(p, feat)
        \/ FeatInit(p)
        \/ FeatWait(p)
        \/ FeatRead(p)
        \/ \E c \in RaceResults(LEAF_01) : FeatQuery01(p, cpuid(c))
        \/ \E c \in RaceResults(LEAF_80000001) : FeatQuery80000001(p, cpuid(c))
        \/ CallCpuType(p, "cpu_type")
        \/ TypeInit(p)
        \/ TypeWait(p)
        \/ TypeRead(p)
        \/ \E leaf \in PlatformLeaves : \E c \in RaceResults(leaf) :
               TypeQuery(p, leaf, cpuid(c))

Spec == Init /\ [][Next]_vars

-----------------------------------------------------------------------------
(* Vocabulary of the properties *)

\* Bit k of a u32, by division
BitSet(x, k) ==
    IF k < 16 THEN (x[2] \div (2 ^ k)) % 2 = 1
    ELSE (x[1] \div (2 ^ (k - 16))) % 2 = 1

\* EDX returned by the i-th query of X86Features::new
QueriedEdx(i) == featQ[i].ret[1].edx

\* The answers is_td_cpu received for a leaf
Answers(leaf) == {typeQ[i].ret : i \in {j \in 1..Len(typeQ) : typeQ[j].leaf = leaf}}

VendorOk(r) ==
    /\ r # None
    /\ r[1].ebx = VENDOR_EBX /\ r[1].edx = VENDOR_EDX /\ r[1].ecx = VENDOR_ECX
HypervisorOk(r) == r # None /\ BitSet(r[1].ecx, 31)
TdxOk(r) ==
    /\ r # None
    /\ r[1].ebx = TDX_EBX /\ r[1].edx = TDX_EDX /\ r[1].ecx = TDX_ECX

AllThreeMatch ==
    /\ \E r \in Answers(LEAF_00) : VendorOk(r)
    /\ \E r \in Answers(LEAF_01) : HypervisorOk(r)
    /\ \E r \in Answers(LEAF_21) : TdxOk(r)

HasReturned(p, ops) ==
    /\ call[p].op \in ops
    /\ ret[p] # None
    /\ ret[p][1] = "return"

TypeOps == {"cpu_type", "is_sev", "is_tdx"}

IsLookup(p) == call[p].op \in {"cpuid_table_raw", "cpuid_table"}

\* Entries among the first `count` of the table the lookup of p saw that match
\* its four arguments
Matching(p) ==
    LET t == call[p].seen[1]
        a == call[p].arg
    IN {i \in 1..t.count :
           /\ t.func[i].eax_in = a[1] /\ t.func[i].ecx_in = a[2]
           /\ t.func[i].xcr0_in = a[3] /\ t.func[i].xss_in = a[4]}

-----------------------------------------------------------------------------
(* Properties *)

\* C1: for every feature index f < 64, cpu_has_feature(f) returns TRUE exactly
\* when bit f % 32 of the EDX value that CPUID returned for word f / 32 (leaf
\* 0x00000001 for word 0, leaf 0x80000001 for word 1) is set.
C1_BitTest ==
    \A p \in Procs :
        (HasReturned(p, {"cpu_has_feature"}) /\ call[p].arg < 64) =>
            /\ Len(featQ) >= 2
            /\ ret[p][2] = BitSet(QueriedEdx((call[p].arg \div 32) + 1),
                                  call[p].arg % 32)

\* C2: a register_cpuid_table call that finds CPUID_PAGE uninitialised installs
\* its table and returns; one that finds a table installed panics with "Could
\* not initialize CPUID page" and CPUID_PAGE keeps the table it had.
C2_RegisterOnce ==
    \A p \in Procs :
        call[p].op = "register_cpuid_table" =>
            IF call[p].seen = None
            THEN /\ ret[p] = Returned("()")
                 /\ CPUID_PAGE = Some(call[p].arg)
            ELSE /\ ret[p] = Panicked("Could not initialize CPUID page")
                 /\ pc[p] = "panicked"
                 /\ CPUID_PAGE = call[p].seen

C2_Witness ==
    \E p \in Procs :
        /\ call[p].op = "register_cpuid_table"
        /\ call[p].seen # None
        /\ call[p].seen # Some(call[p].arg)
        /\ pc[p] = "panicked"

\* C3: with a table installed, a lookup returns Some of the output
\* registers of an entry among the first `count` whose four input fields equal
\* the arguments, and None when there is no such entry.
C3_LookupReturnsMatch ==
    \A p \in Procs :
        (IsLookup(p) /\ call[p].seen # None) =>
            /\ ret[p][1] = "return"
            /\ IF Matching(p) = {} THEN ret[p][2] = None
               ELSE \E i \in Matching(p) :
                       LET e == call[p].seen[1].func[i] IN
                       ret[p][2] = Some(CpuidResult(e.eax_out, e.ebx_out,
                                                    e.ecx_out, e.edx_out))

\* C4: a lookup made while no table is installed returns no CpuidResult, neither
\* Some nor None: it ends in a panic.
C4_NoLookupBeforeInstall ==
    \A p \in Procs :
        (IsLookup(p) /\ call[p].seen = None) =>
            /\ ret[p] # None
            /\ ret[p][1] = "panic"
            /\ pc[p] = "panicked"

C4_Witness ==
    \E p \in Procs :
        /\ IsLookup(p)
        /\ call[p].seen = None
        /\ CPUID_PAGE = None
        /\ pc[p] = "panicked"

\* C5: the resolved platform is Td exactly when leaf 0 answered the vendor
\* signature, leaf 1 answered with ECX bit 31 set and leaf 0x21 answered the TDX
\* signature; otherwise it is Sev; and cpu_type, is_sev and is_tdx return
\* accordingly.
C5_TdIffAllThree ==
    /\ CPU_TYPE.once = "COMPLETE" =>
          /\ CPU_TYPE.value \in {"Td", "Sev"}
          /\ CPU_TYPE.value = "Td" <=> AllThreeMatch
    /\ \A p \in Procs :
          /\ HasReturned(p, {"cpu_type"}) =>
                ret[p][2] = (IF AllThreeMatch THEN "Td" ELSE "Sev")
          /\ HasReturned(p, {"is_tdx"}) => ret[p][2] = AllThreeMatch
          /\ HasReturned(p, {"is_sev"}) => ret[p][2] = ~AllThreeMatch

C5_Witness ==
    /\ CPU_TYPE.once = "COMPLETE"
    /\ CPU_TYPE.value = "Td"
    /\ \E p \in Procs : HasReturned(p, {"cpu_type"}) /\ ret[p][2] = "Td"

\* C6: once a call has returned the platform v, CPU_TYPE stays v, no further
\* CPUID query is issued for it, and every call that has returned (cpu_type,
\* is_sev, is_tdx) agrees with v, whatever the probe would answer now.
C6_ResolvedOnce ==
    first_cpu_type # None =>
        LET v == first_cpu_type[1][1]
            n == first_cpu_type[1][2]
        IN /\ Len(typeQ) = n
           /\ CPU_TYPE = [once |-> "COMPLETE", value |-> v]
           /\ \A p \in Procs :
                 /\ HasReturned(p, {"cpu_type"}) => ret[p][2] = v
                 /\ HasReturned(p, {"is_sev"}) => ret[p][2] = (v = "Sev")
                 /\ HasReturned(p, {"is_tdx"}) => ret[p][2] = (v = "Td")

\* a call made after the first one had returned has returned too
C6_Witness ==
    \E p \in Procs :
        /\ HasReturned(p, TypeOps)
        /\ call[p].seen # None

\* C7: however the contexts interleave their first calls, each lazy static is
\* initialised by one run of its initialiser, and every value a caller gets is
\* taken from the completed static, which holds what that one run computed.
C7_OneInitialisation ==
    /\ evals.feat <= 1
    /\ evals.type <= 1
    /\ \A p \in Procs :
          HasReturned(p, {"cpu_has_feature"}) =>
              /\ X86_FEATURES.once = "COMPLETE"
              /\ Len(featQ) = 2
              /\ X86_FEATURES.word = <<QueriedEdx(1), QueriedEdx(2)>>
              /\ ret[p][2] = cpu_has_feature(X86_FEATURES.word, call[p].arg)
    /\ \A p \in Procs :
          HasReturned(p, {"cpu_type"}) =>
              /\ CPU_TYPE.once = "COMPLETE"
              /\ CPU_TYPE.value = (IF AllThreeMatch THEN "Td" ELSE "Sev")
              /\ ret[p][2] = CPU_TYPE.value

\* both statics were raced, and every context has its value of the raced
\* first cpu_type call
C7_Witness ==
    /\ raced = {"X86_FEATURES", "CPU_TYPE"}
    /\ evals = [feat |-> 1, type |-> 1]
    /\ \A p \in Procs :
          /\ HasReturned(p, {"cpu_type"})
          /\ call[p].seen = None

\* C8: as soon as a query of the resolution is answered None, the resolution is
\* over with Sev: no further query, not Td, no other value, and no context
\* panicked.
C8_UnavailableIsSev ==
    (\E i \in 1..Len(typeQ) : typeQ[i].ret = None) =>
        /\ typeQ[Len(typeQ)].ret = None
        /\ CPU_TYPE = [once |-> "COMPLETE", value |-> "Sev"]
        /\ \A p \in Procs :
              /\ pc[p] # "panicked"
              /\ HasReturned(p, {"cpu_type"}) => ret[p][2] = "Sev"
              /\ HasReturned(p, {"is_sev"}) => ret[p][2] = TRUE
              /\ HasReturned(p, {"is_tdx"}) => ret[p][2] = FALSE

\* leaf 0x21 was the one unavailable, after the two earlier steps passed
C8_Witness ==
    /\ Len(typeQ) = 3
    /\ typeQ[3].ret = None
    /\ \E p \in Procs : HasReturned(p, {"cpu_type"})

\* C9: the resolution queries leaf 0x0, then 0x1, then 0x21, each at most once;
\* leaf 0x1 only after the vendor signature matched, leaf 0x21 only after the
\* hypervisor bit was found set; a failing step ends the resolution.
C9_QueryOrder ==
    /\ Len(typeQ) <= 3
    /\ \A i \in 1..Len(typeQ) : typeQ[i].leaf = <<LEAF_00, LEAF_01, LEAF_21>>[i]
    /\ Len(typeQ) >= 2 => VendorOk(typeQ[1].ret)
    /\ Len(typeQ) >= 3 => HypervisorOk(typeQ[2].ret)
    /\ (Len(typeQ) = 1 /\ ~VendorOk(typeQ[1].ret)) => CPU_TYPE.once = "COMPLETE"
    /\ (Len(typeQ) = 2 /\ ~HypervisorOk(typeQ[2].ret)) => CPU_TYPE.once = "COMPLETE"
    /\ Len(typeQ) = 3 => CPU_TYPE.once = "COMPLETE"

C9_Witness ==
    /\ Len(typeQ) = 3
    /\ CPU_TYPE.once = "COMPLETE"
    /\ \E p \in Procs : HasReturned(p, TypeOps)

\* C10: no query is issued for the feature cache before its first use; the
\* first use issues leaf 0x00000001 then leaf 0x80000001, once each, and the
\* cache holds their two EDX values; nothing is queried or rewritten after
\* that, and calls with the same index return the same result.
C10_LazyBuiltOnce ==
    /\ X86_FEATURES.once = "INCOMPLETE" => featQ = <<>>
    /\ evals.feat <= 1
    /\ Len(featQ) <= 2
    /\ \A i \in 1..Len(featQ) : featQ[i].leaf = <<LEAF_01, LEAF_80000001>>[i]
    /\ X86_FEATURES.once = "COMPLETE" =>
          /\ Len(featQ) = 2
          /\ X86_FEATURES.word = <<QueriedEdx(1), QueriedEdx(2)>>
    /\ \A p, q \in Procs :
          (/\ HasReturned(p, {"cpu_has_feature"})
           /\ HasReturned(q, {"cpu_has_feature"})
           /\ call[p].arg = call[q].arg) => ret[p] = ret[q]

\* a call made after the cache was built returned what an earlier call did
C10_Witness ==
    \E p, q \in Procs :
        /\ p # q
        /\ HasReturned(p, {"cpu_has_feature"})
        /\ HasReturned(q, {"cpu_has_feature"})
        /\ call[p].arg = call[q].arg
        /\ call[p].seen # "COMPLETE"
        /\ call[q].seen = "COMPLETE"

====
